---- MODULE Spec2Model ----
(***************************************************************************)
(* Verification model of the video-rotoscope backend.                      *)
(*                                                                         *)
(*   Spec         the queue consumers (effects/processor.py, processor.py, *)
(*                main.py) working one job message of an SQS queue         *)
(*   SpecEngine   ScannerDarklyEffect.process_batch fed a job's frames     *)
(*                batch by batch                                           *)
(*   SpecPipeline ProcessingPipeline.process_video, memory and disk path   *)
(***************************************************************************)
EXTENDS Integers, Sequences, FiniteSets, TLC

VARIABLES
    \* ---- queue consumers -------------------------------------------------
    consumer,      \* which program the workers run: "effects" | "legacy" | "main"
    body,          \* the job message body: whether it parses and which fields it has
    msg,           \* the queue message: "visible" | "inflight" | "deleted"
    lease,         \* seconds left of the visibility timeout of the message
    receiveCount,  \* number of receives so far; the latest receive's receipt handle
    srcPresent,    \* the source object exists in the bucket
    destUploads,   \* number of completed uploads of the destination object
    wpc,           \* per worker: position in the service loop
    handle,        \* per worker: receipt handle of the delivery it holds
    wret,          \* per worker: what process_message reported (TRUE = success)
    wlog,          \* per worker: events of the current delivery, in order
    wfiles,        \* per worker: local temporary files that exist
    wprog,         \* per worker: frames reported done by the progress callback
    \* ---- an effect engine fed batch by batch ----------------------------------
    eKind,         \* "opencv_dnn" (effects/scanner_darkly.py) | "neural" (effects/neural)
    eModel,        \* the HED model files are present and load
    eTs,           \* temporal_smoothing, in tenths
    eFrames,       \* the frame sequence of the job
    eBatch,        \* the batch size of the caller
    eState,        \* the engine's cross-frame state
    ePos,          \* frames fed so far
    eOut,          \* the output frames so far
    eHist,         \* the engine state after each frame
    \* ---- one ProcessingPipeline and its process_video calls ------------------
    pBatch,        \* config["batch_size"]
    pFfmpeg,       \* VideoAssembler.ffmpeg_available
    cv2Bound,      \* the name cv2 resolves inside pipeline.py (it is not imported there)
    pModel,        \* the HED model files are found by process_frame
    scanner_darkly, \* <<>> (None) or <<the cached effect's state>>
    pCall,         \* process_video calls started so far
    pPc,           \* position inside process_video
    pVideo,        \* the input video of the current call
    pEffect,       \* the effect name of the current call
    pTemp,         \* temporary directories that exist
    frame_files,   \* disk path: the sorted listing, as extraction numbers
    pI,            \* disk path: loop index into frame_files
    frame_batch,   \* disk path: frames loaded and not yet processed
    processed_count,
    processed,     \* processed frames: the list (memory) or index -> frame (disk)
    pWrites,       \* disk path: the indices written, in write order
    pOutPath,      \* where output_path points: "caller" | "processed_dir"
    pSink,         \* the frames handed to the encoder by the last call
    pRet,          \* what the last call returned
    pFault,        \* the environment failed during the current call
    pSeen,         \* the temporal history met by the first frame of the current call
    pProgress,     \* the progress reports <<current, total>> of the current call
    \* ---- process_video's choice between the memory and the disk path ---------
    sVideo,        \* video_info: width, height, total_frames
    sConfig,       \* config: batch_size, max_memory_usage_gb
    sPath,         \* "none" | "memory" | "disk"
    \* ---- the size of a frame from the source to the encoded output -----------
    zSource,       \* <<width, height>> of the frames cap.read() delivers
    zFactor,       \* FrameExtractor.resize_factor, in tenths
    zFfmpeg,       \* the output is written by ffmpeg (else by the OpenCV writer)
    zPc,           \* "source" | "extracted" | "encoded"
    zFrame,        \* <<width, height>> of the frame handed to the effect
    zEncoded,      \* <<width, height>> of the encoded output
    \* ---- process_scanner_darkly of effects/processor.py ----------------------
    dVideo,        \* the input: frames cap.read() delivers, CAP_PROP_FRAME_COUNT
    dPc,           \* "loop" | "returned"
    dRead,         \* frames read so far
    dFrames,       \* the pending batch `frames`, as frame numbers
    dCount,        \* processed_count
    dWritten,      \* the frames written to the output, in order
    dRet,          \* the value returned
    \* ---- one EffectRegistry (effects/core/effect_core.py) --------------------
    gStored,       \* the effect ids of the manifest object in the bucket
    manifest,      \* self.manifest: <<>> (None) or <<the set of effect ids>>
    effects_cache, \* the effect ids whose module has been downloaded
    gLoad,         \* how the last load_manifest ended: "none" | "ok" | "client_error" | "error"
    gReturned,     \* the effect ids of the manifest the last load_manifest returned
    gCalls,        \* lookups made so far
    gResult        \* the last lookup: "none" | "command" | "path" | "None" | "TypeError"

consumerVars == <<consumer, body, msg, lease, receiveCount, srcPresent, destUploads,
                  wpc, handle, wret, wlog, wfiles, wprog>>

engineVars == <<eKind, eModel, eTs, eFrames, eBatch, eState, ePos, eOut, eHist>>

pipeVars == <<pBatch, pFfmpeg, cv2Bound, pModel, scanner_darkly, pCall, pPc, pVideo,
              pEffect, pTemp, frame_files, pI, frame_batch, processed_count, processed,
              pWrites, pOutPath, pSink, pRet, pFault, pSeen, pProgress>>

strategyVars == <<sVideo, sConfig, sPath>>

resizeVars == <<zSource, zFactor, zFfmpeg, zPc, zFrame, zEncoded>>

darklyVars == <<dVideo, dPc, dRead, dFrames, dCount, dWritten, dRet>>

registryVars == <<gStored, manifest, effects_cache, gLoad, gReturned, gCalls, gResult>>

vars == <<consumerVars, engineVars, pipeVars, strategyVars, resizeVars, darklyVars,
          registryVars>>

nonConsumerVars == <<engineVars, pipeVars, strategyVars, resizeVars, darklyVars,
    registryVars>>

nonEngineVars == <<consumerVars, pipeVars, strategyVars, resizeVars, darklyVars,
    registryVars>>

nonPipeVars == <<consumerVars, engineVars, strategyVars, resizeVars, darklyVars,
    registryVars>>

nonStrategyVars == <<consumerVars, engineVars, pipeVars, resizeVars, darklyVars,
    registryVars>>

nonResizeVars == <<consumerVars, engineVars, pipeVars, strategyVars, darklyVars,
    registryVars>>

nonDarklyVars == <<consumerVars, engineVars, pipeVars, strategyVars, resizeVars,
    registryVars>>

nonRegistryVars == <<consumerVars, engineVars, pipeVars, strategyVars, resizeVars, darklyVars>>

-----------------------------------------------------------------------------
(* Bounds of the model *)
NumWorkers == 2
MaxReceives == 3
TickSeconds == 300
JobFrames == 100
QueueDefaultVisibility == 30

MaxVideoLen == 7
MaxBatch == 3
MaxCalls == 2
MaxFrames == 3
LongVideoFrames == 101
UnderReported == 9

(* Program constants *)
PipelineTs == 3
max_previous_frames == 5
EdgeStrength == 8
MergeThreshold == 2
VisibilityTimeout == 600
BatchSize == 30
RenewEvery == 100

Workers == 1..NumWorkers
ConsumerKinds == {"effects", "legacy", "main"}
\* a body that is not JSON, or a JSON object with or without each required field
NotJson == [json |-> FALSE, bucket |-> FALSE, input_key |-> FALSE, output_key |-> FALSE]

BodyKinds ==
    {NotJson} \cup {[json |-> TRUE, bucket |-> b, input_key |-> i, output_key |-> o] :
                        b \in BOOLEAN, i \in BOOLEAN, o \in BOOLEAN}

ValidBody == [json |-> TRUE, bucket |-> TRUE, input_key |-> TRUE, output_key |-> TRUE]

\* the body gets past json.loads and the check of the required fields
AcceptsAnyJson(b) == b.json

Accepts(b) == b.json /\ b.bucket /\ b.input_key /\ b.output_key

Min(a, b) == IF a < b THEN a ELSE b

Contains(s, e) == \E i \in 1..Len(s) : s[i] = e

\* position of the first occurrence of e in s, 0 when absent
IndexOf(s, e) == IF Contains(s, e) THEN CHOOSE i \in 1..Len(s) : s[i] = e /\ \A j \in 1..(i-1) : s[j] # e ELSE 0

Count(s, e) == Cardinality({i \in 1..Len(s) : s[i] = e})

-----------------------------------------------------------------------------
(* The service loops *)

\* VisibilityTimeout asked for by the receive call of each consumer
ReceiveVisibility(kind) ==
    IF kind = "legacy" THEN QueueDefaultVisibility ELSE VisibilityTimeout

\* the step that follows the successful step `pc` inside the job
NextStepSwapped(kind, pc) ==
    CASE pc = "validate" -> "download"
      [] pc = "download" -> "process"
      [] pc = "process"  -> IF kind = "effects" THEN "delete_source" ELSE "upload"
      [] pc = "delete_source" -> "upload"
      [] pc = "upload" -> "return_true"
      [] OTHER -> "return_true"

NextStep(kind, pc) ==
    CASE pc = "validate" -> "download"
      [] pc = "download" -> "process"
      [] pc = "process"  -> "upload"
      [] pc = "upload"   -> IF kind = "effects" THEN "delete_source" ELSE "return_true"
      [] pc = "delete_source" -> "return_true"
      [] OTHER -> "return_true"

\* whether the job goes on after a storage call that reported `ok`
ProceedsIgnoringResult(ok) == TRUE

Proceeds(ok) == ok

\* main_loop of main.py, which main_cli calls: what it does with a job that
\* process_message reported done (the source object is the commit point)
AfterSuccess(kind) == IF kind = "main" THEN "loop_delete_source" ELSE "ack"

\* whether the loop deletes the queue message after process_message
DeletesAlways(success) == TRUE

DeletesMessage(success) == success

\* local files left once process_message has returned
FilesAfterReturn(kind, files, success, raised) ==
    CASE kind = "effects" -> {}
      [] kind = "legacy"  -> IF success THEN {} ELSE files
      [] kind = "main"    -> IF success \/ raised THEN {} ELSE files

\* the loop goes on to delete the message: the job succeeded and, where the loop
\* itself deletes the source, that deletion went through
LoopCommits(w) == wret[w] /\ ~Contains(wlog[w], "delete_src_fail")

Log(w, e) == wlog' = [wlog EXCEPT ![w] = Append(@, e)]

\* process_message returns (or raises): the result, the cleanup, back in the loop
Return(w, success, raised) ==
    /\ wret' = [wret EXCEPT ![w] = success]
    /\ wfiles' = [wfiles EXCEPT ![w] = FilesAfterReturn(consumer, @, success, raised)]
    /\ wpc' = [wpc EXCEPT ![w] = IF success THEN AfterSuccess(consumer) ELSE "ack"]

Advance(w) ==
    LET n == NextStep(consumer, wpc[w]) IN
    IF n = "return_true"
    THEN Return(w, TRUE, FALSE)
    ELSE /\ wpc' = [wpc EXCEPT ![w] = n]
         /\ UNCHANGED <<wret, wfiles>>

\* sqs.receive_message: the message, when visible, goes in flight to this worker
Receive(w) ==
    /\ UNCHANGED nonConsumerVars
    /\ wpc[w] = "poll"
    /\ msg = "visible"
    /\ receiveCount < MaxReceives
    /\ msg' = "inflight"
    /\ lease' = ReceiveVisibility(consumer)
    /\ receiveCount' = receiveCount + 1
    /\ handle' = [handle EXCEPT ![w] = receiveCount + 1]
    /\ wpc' = [wpc EXCEPT ![w] = "validate"]
    /\ wlog' = [wlog EXCEPT ![w] = <<"received">>]
    /\ wprog' = [wprog EXCEPT ![w] = 0]
    /\ wret' = [wret EXCEPT ![w] = FALSE]
    /\ UNCHANGED <<consumer, body, srcPresent, destUploads, wfiles>>

\* parsing the body and checking the required fields
Validate(w) ==
    /\ UNCHANGED nonConsumerVars
    /\ wpc[w] = "validate"
    /\ IF Accepts(body)
       THEN /\ Log(w, "valid")
            /\ wpc' = [wpc EXCEPT ![w] = NextStep(consumer, "validate")]
            /\ UNCHANGED <<wret, wfiles>>
       ELSE /\ Log(w, "rejected")
            /\ Return(w, FALSE, consumer = "legacy")
    /\ UNCHANGED <<consumer, body, msg, lease, receiveCount, srcPresent, destUploads,
                   handle, wprog>>

\* s3 download of the source object; fails when the object is gone or S3 is unreachable
Download(w) ==
    /\ UNCHANGED nonConsumerVars
    /\ wpc[w] = "download"
    /\ \E ok \in BOOLEAN :
        /\ ok => srcPresent
        /\ IF ok
           THEN /\ Log(w, "download_ok")
                /\ wfiles' = [wfiles EXCEPT ![w] = @ \cup {"input"}]
                /\ wpc' = [wpc EXCEPT ![w] = NextStep(consumer, "download")]
                /\ UNCHANGED wret
           ELSE /\ Log(w, "download_fail")
                /\ Return(w, FALSE, consumer = "legacy")
    /\ UNCHANGED <<consumer, body, msg, lease, receiveCount, srcPresent, destUploads,
                   handle, wprog>>

\* main.py progress_callback after a batch: renew the lease every RenewEvery frames
ProgressCallback(w) ==
    /\ UNCHANGED nonConsumerVars
    /\ wpc[w] = "process"
    /\ consumer = "main"
    /\ wprog[w] < JobFrames
    /\ LET current == Min(wprog[w] + BatchSize, JobFrames) IN
        /\ wprog' = [wprog EXCEPT ![w] = current]
        /\ IF current % RenewEvery = 0
           THEN /\ Log(w, "extend")
                /\ IF msg = "inflight" /\ handle[w] = receiveCount
                   THEN lease' = VisibilityTimeout
                   ELSE UNCHANGED lease
           ELSE UNCHANGED <<wlog, lease>>
    /\ UNCHANGED <<consumer, body, msg, receiveCount, srcPresent, destUploads,
                   wpc, handle, wret, wfiles>>

\* process_video's result: False when the source does not open (get_video_info
\* raises before any frame is read), else what the rest of the job made of it
OpenFailureIgnored(opens, rest) == rest

ProcessVideoResult(opens, rest) == opens /\ rest

\* process_video reports its result; a source that does not open fails before
\* the first frame, so before the first progress report
ProcessVideo(w) ==
    /\ UNCHANGED nonConsumerVars
    /\ wpc[w] = "process"
    /\ \E opens \in BOOLEAN, rest \in BOOLEAN :
        /\ ~opens => rest
        /\ consumer = "main" => wprog[w] = IF opens THEN JobFrames ELSE 0
        /\ ~opens => wprog[w] = 0
        /\ IF ProcessVideoResult(opens, rest)
           THEN /\ wlog' = [wlog EXCEPT ![w] =
                        @ \o (IF opens THEN <<>> ELSE <<"open_fail">>) \o <<"process_ok">>]
                /\ wfiles' = [wfiles EXCEPT ![w] = @ \cup {"output"}]
                /\ wpc' = [wpc EXCEPT ![w] = NextStep(consumer, "process")]
                /\ UNCHANGED wret
           ELSE /\ Log(w, IF opens THEN "process_fail" ELSE "open_fail")
                /\ Return(w, FALSE, consumer = "legacy")
    /\ UNCHANGED <<consumer, body, msg, lease, receiveCount, srcPresent, destUploads,
                   handle, wprog>>

\* s3 upload of the processed file
Upload(w) ==
    /\ UNCHANGED nonConsumerVars
    /\ wpc[w] = "upload"
    /\ \E ok \in BOOLEAN :
        /\ Log(w, IF ok THEN "upload_ok" ELSE "upload_fail")
        /\ destUploads' = IF ok THEN destUploads + 1 ELSE destUploads
        /\ IF Proceeds(ok)
           THEN Advance(w)
           ELSE Return(w, FALSE, consumer = "legacy")
    /\ UNCHANGED <<consumer, body, msg, lease, receiveCount, srcPresent, handle, wprog>>

\* s3 delete_object of the source (deleting an absent key succeeds)
DeleteSource(w) ==
    /\ UNCHANGED nonConsumerVars
    /\ wpc[w] = "delete_source"
    /\ consumer = "effects"
    /\ \E ok \in BOOLEAN :
        IF ok
        THEN /\ Log(w, "delete_src_ok")
             /\ srcPresent' = FALSE
             /\ Advance(w)
        ELSE /\ Log(w, "delete_src_fail")
             /\ Return(w, FALSE, FALSE)
             /\ UNCHANGED srcPresent
    /\ UNCHANGED <<consumer, body, msg, lease, receiveCount, destUploads, handle, wprog>>

\* main_loop: delete the source object of a job reported done
LoopDeleteSource(w) ==
    /\ UNCHANGED nonConsumerVars
    /\ wpc[w] = "loop_delete_source"
    /\ \E ok \in BOOLEAN :
        /\ Log(w, IF ok THEN "delete_src_ok" ELSE "delete_src_fail")
        /\ srcPresent' = IF ok THEN FALSE ELSE srcPresent
    /\ wpc' = [wpc EXCEPT ![w] = "ack"]
    /\ UNCHANGED <<consumer, body, msg, lease, receiveCount, destUploads,
                   handle, wret, wfiles, wprog>>

\* back in the loop: delete the queue message when the job succeeded
Ack(w) ==
    /\ UNCHANGED nonConsumerVars
    /\ wpc[w] = "ack"
    /\ wpc' = [wpc EXCEPT ![w] = "poll"]
    /\ IF DeletesMessage(LoopCommits(w))
       THEN \E ok \in BOOLEAN :
              IF ok
              THEN /\ Log(w, "delete_msg_ok")
                   /\ IF msg # "deleted" /\ handle[w] = receiveCount
                      THEN msg' = "deleted" /\ lease' = 0
                      ELSE UNCHANGED <<msg, lease>>
              ELSE /\ Log(w, "delete_msg_fail")
                   /\ UNCHANGED <<msg, lease>>
       ELSE /\ Log(w, "left_in_queue")
            /\ UNCHANGED <<msg, lease>>
    /\ UNCHANGED <<consumer, body, receiveCount, srcPresent, destUploads,
                   handle, wret, wfiles, wprog>>

\* time passes; a lease that runs out makes the message visible again
Tick ==
    /\ UNCHANGED nonConsumerVars
    /\ msg = "inflight"
    /\ lease' = IF lease > TickSeconds THEN lease - TickSeconds ELSE 0
    /\ msg' = IF lease > TickSeconds THEN "inflight" ELSE "visible"
    /\ UNCHANGED <<consumer, body, receiveCount, srcPresent, destUploads,
                   wpc, handle, wret, wlog, wfiles, wprog>>

InitConsumer ==
    /\ consumer \in ConsumerKinds
    /\ body \in BodyKinds
    /\ msg = "visible"
    /\ lease = 0
    /\ receiveCount = 0
    /\ srcPresent = TRUE
    /\ destUploads = 0
    /\ wpc = [w \in Workers |-> "poll"]
    /\ handle = [w \in Workers |-> 0]
    /\ wret = [w \in Workers |-> FALSE]
    /\ wlog = [w \in Workers |-> <<>>]
    /\ wfiles = [w \in Workers |-> {}]
    /\ wprog = [w \in Workers |-> 0]


-----------------------------------------------------------------------------
(* The effect engines.  A frame is one pixel value; edge values, weights and  *)
(* thresholds are in tenths.  Pixel value 0 stands for a frame on which the   *)
(* edge detection raises, 1 for a frame with an edge at the pixel, 2 for one  *)
(* without.                                                                   *)

Pixels == {0, 1, 2}

EdgeFails(f) == f = 0

\* the external edge detector: 1 where the pixel lies on an edge
RawEdge(f) == IF f = 1 THEN 1 ELSE 0

\* process_frame's edge map: thresholded HED response scaled by edge_strength,
\* or the Canny map scaled to 0..1 when the model files are missing
Edges(f, model) == IF model THEN RawEdge(f) * EdgeStrength ELSE RawEdge(f) * 10

RECURSIVE WeightedSum(_, _)
WeightedSum(prev, i) ==
    IF i = 0 THEN 0 ELSE prev[i] * i + WeightedSum(prev, i - 1)

Push(prev, edges) ==
    LET q == Append(prev, edges) IN
    IF Len(q) > max_previous_frames THEN Tail(q) ELSE q

\* the test at the head of apply_temporal_smoothing: the current edges are
\* returned as they are
SkipsBlendOnlyWhenDisabled(previous_edges, ts) == ts <= 0

SkipsBlend(previous_edges, ts) == Len(previous_edges) = 0 \/ ts <= 0

\* ScannerDarklyEffect.apply_temporal_smoothing: the smoothed value as the
\* fraction <<numerator, denominator>>, and the new history
apply_temporal_smoothing(previous_edges, edges, ts) ==
    IF SkipsBlend(previous_edges, ts)
    THEN [previous_edges |-> Push(previous_edges, edges), smoothed |-> <<edges, 1>>]
    ELSE LET n == Len(previous_edges)
             num == edges * (10 - ts) * n + ts * WeightedSum(previous_edges, n)
             den == (10 - ts) * n + ts * ((n * (n + 1)) \div 2)
         IN [previous_edges |-> Push(previous_edges, edges), smoothed |-> <<num, den>>]

\* ColorQuantizer.quantize: k-means from random centers (the OpenCV generator
\* has advanced `rng` times), black where the edge map exceeds 0.2
quantize(f, rng, smoothed) ==
    [px |-> f, seed |-> rng, edge |-> smoothed[1] * 10 > MergeThreshold * smoothed[2]]

\* ScannerDarklyEffect.process_frame (effects/scanner_darkly.py)
process_frame(st, f, model, ts) ==
    IF EdgeFails(f)
    THEN [state |-> [st EXCEPT !.rng = @ + 1],
          out |-> [px |-> f, seed |-> st.rng, edge |-> FALSE]]
    ELSE LET r == apply_temporal_smoothing(st.previous_edges, Edges(f, model), ts) IN
         [state |-> [previous_edges |-> r.previous_edges, rng |-> st.rng + 1],
          out |-> quantize(f, st.rng, r.smoothed)]

\* the reset test at the head of process_batch
ResetsEveryBatch(previous_edges, frames) == Len(frames) > 0

ShouldReset(previous_edges, frames) ==
    Len(frames) > 0 /\ (Len(previous_edges) > max_previous_frames \/ Len(previous_edges) = 0)

RECURSIVE FoldFrames(_, _, _, _)
FoldFrames(st, frames, model, ts) ==
    IF frames = <<>>
    THEN [state |-> st, outs |-> <<>>, states |-> <<>>]
    ELSE LET r == process_frame(st, Head(frames), model, ts)
             rest == FoldFrames(r.state, Tail(frames), model, ts)
         IN [state |-> rest.state, outs |-> <<r.out>> \o rest.outs,
             states |-> <<r.state>> \o rest.states]

\* ScannerDarklyEffect.process_batch (effects/scanner_darkly.py)
process_batch(st, frames, model, ts) ==
    LET st0 == IF ShouldReset(st.previous_edges, frames)
               THEN [st EXCEPT !.previous_edges = <<>>]
               ELSE st
    IN FoldFrames(st0, frames, model, ts)

NewEffect == [previous_edges |-> <<>>, rng |-> 0]

\* ---- effects/neural/scanner_darkly.py -----------------------------------
\* prev_edges is <<>> (None) or <<numerator, exponent>> for numerator / 10^exponent;
\* prev_colors is -1 (None) or a colour level 0..255

Pow10(k) == IF k = 0 THEN 1 ELSE IF k = 1 THEN 10 ELSE IF k = 2 THEN 100
            ELSE IF k = 3 THEN 1000 ELSE IF k = 4 THEN 10000 ELSE IF k = 5 THEN 100000
            ELSE IF k = 6 THEN 1000000 ELSE IF k = 7 THEN 10000000 ELSE 100000000

\* _detect_edges: blend with the previous map, which is then replaced by the blend
detect_edges(prev_edges, f, ts) ==
    IF EdgeFails(f)
    THEN [prev_edges |-> prev_edges, edges |-> <<0, 0>>]
    ELSE LET e == RawEdge(f) * 10
             b == IF prev_edges # <<>> /\ ts > 0
                  THEN <<(10 - ts) * e * Pow10(prev_edges[2]) + ts * prev_edges[1],
                         prev_edges[2] + 1>>
                  ELSE <<e, 0>>
         IN [prev_edges |-> b, edges |-> b]

\* _quantize_kmeans: cv2.addWeighted with the previous colours, rounded
quantize_kmeans(prev_colors, f, ts, rng) ==
    LET q == f * 100
        c == IF prev_colors # -1 /\ ts > 0
             THEN (q * (10 - ts) + prev_colors * ts + 5) \div 10
             ELSE q
    IN [prev_colors |-> c, colors |-> <<c, rng>>]

neural_frame(st, f, ts) ==
    LET e == detect_edges(st.prev_edges, f, ts)
        c == quantize_kmeans(st.prev_colors, f, ts, st.rng)
    IN [state |-> [prev_edges |-> e.prev_edges, prev_colors |-> c.prev_colors,
                   rng |-> st.rng + 1],
        out |-> [edges |-> e.edges, colors |-> c.colors]]

RECURSIVE NeuralFold(_, _, _)
NeuralFold(st, frames, ts) ==
    IF frames = <<>>
    THEN [state |-> st, outs |-> <<>>, states |-> <<>>]
    ELSE LET r == neural_frame(st, Head(frames), ts)
             rest == NeuralFold(r.state, Tail(frames), ts)
         IN [state |-> rest.state, outs |-> <<r.out>> \o rest.outs,
             states |-> <<r.state>> \o rest.states]

\* ScannerDarklyEffect.process_batch (effects/neural/scanner_darkly.py): the
\* frames come back untouched when the network does not load
neural_process_batch(st, frames, model, ts) ==
    IF ~model
    THEN [state |-> st,
          outs |-> [i \in 1..Len(frames) |-> [edges |-> <<>>, colors |-> <<frames[i], -1>>]],
          states |-> [i \in 1..Len(frames) |-> st]]
    ELSE NeuralFold(st, frames, ts)

NewNeuralEffect == [prev_edges |-> <<>>, prev_colors |-> -1, rng |-> 0]

EngineBatch(kind, st, frames, model, ts) ==
    IF kind = "neural"
    THEN neural_process_batch(st, frames, model, ts)
    ELSE process_batch(st, frames, model, ts)

\* ---- a job's frames fed to one engine batch by batch ---------------------
Videos(n) == UNION {[1..k -> Pixels] : k \in 0..n}

\* the caller's loop: process_batch on successive chunks of b frames
RECURSIVE Chunked(_, _, _, _, _, _)
Chunked(kind, st, frames, b, model, ts) ==
    IF frames = <<>>
    THEN [state |-> st, outs |-> <<>>, states |-> <<>>]
    ELSE LET k == Min(b, Len(frames))
             r == EngineBatch(kind, st, SubSeq(frames, 1, k), model, ts)
             rest == Chunked(kind, r.state, SubSeq(frames, k + 1, Len(frames)), b, model, ts)
         IN [state |-> rest.state, outs |-> r.outs \o rest.outs,
             states |-> r.states \o rest.states]

FreshEngine(kind) == IF kind = "neural" THEN NewNeuralEffect ELSE NewEffect

FeedBatch ==
    /\ ePos < Len(eFrames)
    /\ LET hi == Min(ePos + eBatch, Len(eFrames))
           res == EngineBatch(eKind, eState, SubSeq(eFrames, ePos + 1, hi), eModel, eTs)
       IN /\ eState' = res.state
          /\ eOut' = eOut \o res.outs
          /\ eHist' = eHist \o res.states
          /\ ePos' = hi
    /\ UNCHANGED <<eKind, eModel, eTs, eFrames, eBatch>>
    /\ UNCHANGED nonEngineVars

EngineIdle ==
    /\ eKind = "opencv_dnn"
    /\ eModel = FALSE
    /\ eTs = 0
    /\ eFrames = <<>>
    /\ eBatch = 1
    /\ eState = NewEffect
    /\ ePos = 0
    /\ eOut = <<>>
    /\ eHist = <<>>

ConsumerIdle ==
    /\ consumer = "effects"
    /\ body = ValidBody
    /\ msg = "deleted"
    /\ lease = 0
    /\ receiveCount = 0
    /\ srcPresent = FALSE
    /\ destUploads = 0
    /\ wpc = [w \in Workers |-> "poll"]
    /\ handle = [w \in Workers |-> 0]
    /\ wret = [w \in Workers |-> FALSE]
    /\ wlog = [w \in Workers |-> <<>>]
    /\ wfiles = [w \in Workers |-> {}]
    /\ wprog = [w \in Workers |-> 0]


-----------------------------------------------------------------------------
(* ProcessingPipeline.process_video.  A frame of the input is its position    *)
(* 1..n in the video; its content is PixelOf that position.                   *)

PixelOf(src) == (src + 1) % 3

\* the videos: short ones of every length, with the frame count the container
\* reports, whether a batch of their frames exceeds the memory limit, and the
\* frame (if any) that cannot be read: by the decoder on the memory path, from
\* its extracted file on the disk path; one long video whose
\* container under-reports its length; one file that does not open
ShortVideos ==
    {[n |-> n, reported |-> n, opens |-> TRUE, big |-> b, bad |-> u] :
        n \in 0..MaxFrames, b \in BOOLEAN, u \in 0..MaxFrames} 

Shapes ==
    {v \in ShortVideos : v.bad <= v.n}
    \cup {[n |-> LongVideoFrames, reported |-> UnderReported, opens |-> TRUE, big |-> TRUE, bad |-> 0]}
    \cup {[n |-> 0, reported |-> 0, opens |-> FALSE, big |-> FALSE, bad |-> 0]}

NoVideo == [n |-> 0, reported |-> 0, opens |-> FALSE, big |-> FALSE, bad |-> 0]

\* the frames cap.read() delivers before it first reports no frame: a read that
\* fails mid-stream ends the extraction loop like the end of the video
FramesRead(v) == IF v.bad = 0 THEN v.n ELSE v.bad - 1

\* the first argument of progress_callback after a batch of len frames
ReportedBatchOnly(count, len) == len

ReportedDone(count, len) == count + len

\* process_video's choice of strategy
UseDiskFromThreshold(v) == v.big \/ v.reported >= 1000

use_disk_frames(v) == v.big \/ v.reported > 1000

\* processing_memory_gb > config["max_memory_usage_gb"], in KiB: the frame sizes
\* taken are multiples of 32 pixels each way, so width * height * 3 bytes is a
\* whole number of KiB and the floating-point quotients of the code are exact
ExceedsBudget(width, height, batch_size, max_memory_usage_gb) ==
    ((width * height) \div 1024) * 3 * batch_size * 2 > max_memory_usage_gb * 1024 * 1024

RECURSIVE Digits(_)
Digits(k) == IF k < 10 THEN <<k>> ELSE Append(Digits(k \div 10), k % 10)

\* format(k, "0{w}d")
ZeroPad(k, w) ==
    LET ds == Digits(k) IN
    IF Len(ds) >= w THEN ds
    ELSE [i \in 1..w |-> IF i <= w - Len(ds) THEN 0 ELSE ds[i - (w - Len(ds))]]

frame_digits(total_frames) == Len(Digits(total_frames)) + 1

\* the name extract_to_disk gives frame number k: its digits, then the "."
\* of ".png", which sorts before every digit
FrameFileName(k, total_frames) == ZeroPad(k, frame_digits(total_frames)) \o <<-1>>

\* string comparison
LexLess(a, b) ==
    \/ \E i \in 1..Min(Len(a), Len(b)) : a[i] < b[i] /\ \A j \in 1..(i - 1) : a[j] = b[j]
    \/ Len(a) < Len(b) /\ \A j \in 1..Len(a) : a[j] = b[j]

\* sorted(names): the names are distinct, so every comparison sort gives the
\* same list; here a quicksort around the middle frame number
RECURSIVE SortByName(_, _)
SortByName(S, total_frames) ==
    IF S = {} THEN <<>>
    ELSE LET p == CHOOSE x \in S : Cardinality({g \in S : g < x}) = Cardinality(S) \div 2
             less == {g \in S : LexLess(FrameFileName(g, total_frames),
                                        FrameFileName(p, total_frames))}
         IN SortByName(less, total_frames) \o <<p>>
               \o SortByName(S \ (less \cup {p}), total_frames)

\* sorted(os.listdir(frames_dir)) for extracted frames 0..n-1, as frame numbers
SortedListing(n, total_frames) == SortByName(0..(n - 1), total_frames)

\* effect_processor.process_batch on frames given by their positions
EffectBatch(st, srcs) ==
    LET r == process_batch(st, [i \in 1..Len(srcs) |-> PixelOf(srcs[i])], pModel, PipelineTs)
    IN [state |-> r.state,
        outs |-> [i \in 1..Len(srcs) |-> [src |-> srcs[i], out |-> r.outs[i]]]]

\* the history the first frame of a batch meets, after process_batch's reset test
HistoryMet(st, srcs) ==
    IF ShouldReset(st.previous_edges, srcs) THEN <<>> ELSE st.previous_edges

\* process_video returns: its locals are gone
ReturnVideo(ret, sink) ==
    /\ pPc' = "returned"
    /\ pRet' = ret
    /\ pSink' = sink
    /\ frame_files' = <<>>
    /\ pI' = 0
    /\ frame_batch' = <<>>
    /\ processed_count' = 0
    /\ processed' = <<>>
    /\ pWrites' = <<>>
    /\ pOutPath' = "caller"

\* process_video up to the choice of strategy
StartVideo ==
    /\ pPc \in {"idle", "returned"}
    /\ pCall < MaxCalls
    /\ pCall' = pCall + 1
    /\ \E v \in Shapes, e \in {"scanner_darkly", "other"} :
        /\ pVideo' = v
        /\ pEffect' = e
        /\ pFault' = ~v.opens
        /\ IF ~v.opens
           THEN ReturnVideo(FALSE, <<>>)
           ELSE /\ pPc' = IF use_disk_frames(v) THEN "disk" ELSE "memory"
                /\ pSink' = <<>>
                /\ pRet' = FALSE
                /\ UNCHANGED <<frame_files, pI, frame_batch, processed_count, processed,
                               pWrites, pOutPath>>
    /\ pSeen' = <<>>
    /\ pProgress' = <<>>
    /\ UNCHANGED <<pBatch, pFfmpeg, cv2Bound, pModel, scanner_darkly, pTemp>>
    /\ UNCHANGED nonPipeVars

\* _get_effect_processor and _get_scanner_darkly at the head of either path
GetEffect ==
    /\ pPc \in {"disk", "memory"}
    /\ IF pEffect # "scanner_darkly"
       THEN /\ ReturnVideo(FALSE, <<>>)
            /\ UNCHANGED <<scanner_darkly, pFault>>
       ELSE \E raises \in BOOLEAN :
              /\ raises => scanner_darkly = <<>>
              /\ IF raises
                 THEN /\ ReturnVideo(FALSE, <<>>)
                      /\ pFault' = TRUE
                      /\ UNCHANGED scanner_darkly
                 ELSE /\ scanner_darkly' = IF scanner_darkly = <<>> THEN <<NewEffect>>
                                           ELSE scanner_darkly
                      /\ pPc' = IF pPc = "disk" THEN "disk_setup" ELSE "mem_loop"
                      /\ UNCHANGED <<pFault, pRet, pSink, frame_files, pI, frame_batch,
                                     processed_count, processed, pWrites, pOutPath>>
    /\ UNCHANGED <<pBatch, pFfmpeg, cv2Bound, pModel, pCall, pVideo, pEffect, pTemp,
                   pSeen, pProgress>>
    /\ UNCHANGED nonPipeVars

\* one batch from extract_frames_batch through process_batch
MemBatch ==
    /\ pPc = "mem_loop"
    /\ processed_count < FramesRead(pVideo)
    /\ LET hi == Min(processed_count + pBatch, FramesRead(pVideo))
           batch == [i \in 1..(hi - processed_count) |-> processed_count + i]
           r == EffectBatch(scanner_darkly[1], batch)
       IN /\ pSeen' = IF processed_count = 0 THEN HistoryMet(scanner_darkly[1], batch)
                      ELSE pSeen
          /\ scanner_darkly' = <<r.state>>
          /\ processed' = processed \o r.outs
          /\ processed_count' = hi
          /\ pProgress' = Append(pProgress, <<ReportedDone(processed_count, hi - processed_count),
                                              pVideo.reported>>)
    /\ UNCHANGED <<pBatch, pFfmpeg, cv2Bound, pModel, pCall, pPc, pVideo, pEffect, pTemp,
                   frame_files, pI, frame_batch, pWrites, pOutPath, pSink, pRet, pFault>>
    /\ UNCHANGED nonPipeVars

\* VideoAssembler.assemble on the list of processed frames
MemAssemble ==
    /\ pPc = "mem_loop"
    /\ processed_count = FramesRead(pVideo)
    /\ IF processed = <<>>
       THEN /\ ReturnVideo(FALSE, <<>>)
            /\ UNCHANGED <<pTemp, pFault>>
       ELSE IF pFfmpeg
       THEN /\ pPc' = "ffmpeg_encode"
            /\ pTemp' = pTemp \cup {"temp_frames_dir"}
            /\ UNCHANGED <<pFault, pRet, pSink, frame_files, pI, frame_batch,
                           processed_count, processed, pWrites, pOutPath>>
       ELSE \E ok \in BOOLEAN :
              /\ ReturnVideo(ok, processed)
              /\ pFault' = (pFault \/ ~ok)
              /\ UNCHANGED pTemp
    /\ UNCHANGED <<pBatch, pFfmpeg, cv2Bound, pModel, scanner_darkly, pCall, pVideo,
                   pEffect, pSeen, pProgress>>
    /\ UNCHANGED nonPipeVars

\* frames_to_video_ffmpeg once the frames are in its temporary directory: the
\* encoder runs, the directory is removed, and OpenCV takes over when ffmpeg failed
FfmpegEncode ==
    /\ pPc = "ffmpeg_encode"
    /\ pTemp' = pTemp \ {"temp_frames_dir"}
    /\ \E ok \in BOOLEAN, fallback_ok \in BOOLEAN :
        /\ ok => fallback_ok
        /\ ReturnVideo(ok \/ fallback_ok, processed)
        /\ pFault' = (pFault \/ ~ok)
    /\ UNCHANGED <<pBatch, pFfmpeg, cv2Bound, pModel, scanner_darkly, pCall, pVideo,
                   pEffect, pSeen, pProgress>>
    /\ UNCHANGED nonPipeVars

\* the processed frame files in numeric order, as assemble_from_disk loads them
\* for OpenCV
RECURSIVE InIndexOrder(_, _)
InIndexOrder(dir, from) ==
    IF \A x \in DOMAIN dir : x < from THEN <<>>
    ELSE LET x == CHOOSE y \in DOMAIN dir : y >= from /\ \A z \in DOMAIN dir : z >= from => y <= z
         IN <<dir[x]>> \o InIndexOrder(dir, x + 1)

\* the frames ffmpeg reads through frame_%08d.png: from number 0 up to the first gap
RECURSIVE PatternOrder(_, _)
PatternOrder(dir, from) ==
    IF from \notin DOMAIN dir THEN <<>>
    ELSE <<dir[from]>> \o PatternOrder(dir, from + 1)

\* the two temporary directories are made and extract_to_disk fills frames_dir;
\* then the listing is sorted
DiskSetup ==
    /\ pPc = "disk_setup"
    /\ pTemp' = pTemp \cup {"frames_dir", "processed_dir"}
    /\ \E raises \in BOOLEAN :
        IF raises
        THEN /\ ReturnVideo(FALSE, <<>>)
             /\ pFault' = TRUE
        ELSE /\ frame_files' = SortedListing(pVideo.n, pVideo.reported)
             /\ pPc' = "disk_loop"
             /\ UNCHANGED <<pI, frame_batch, processed_count, processed, pWrites, pOutPath,
                            pSink, pRet, pFault>>
    /\ UNCHANGED <<pBatch, pFfmpeg, cv2Bound, pModel, scanner_darkly, pCall, pVideo,
                   pEffect, pSeen, pProgress>>
    /\ UNCHANGED nonPipeVars

\* one iteration of the loop over frame_files
DiskFrame ==
    /\ pPc = "disk_loop"
    /\ pI < Len(frame_files)
    /\ LET src == frame_files[pI + 1] + 1
           batch == Append(frame_batch, src)
           r == EffectBatch(scanner_darkly[1], batch)
           idx == [j \in 1..Len(batch) |-> processed_count + j - 1]
           written == {idx[j] : j \in 1..Len(batch)}
       IN IF ~cv2Bound
          THEN /\ ReturnVideo(FALSE, <<>>)
               /\ UNCHANGED <<scanner_darkly, pFault, pSeen, pProgress>>
          ELSE IF src = pVideo.bad
          THEN /\ pI' = pI + 1
               /\ UNCHANGED <<pFault, scanner_darkly, frame_files, frame_batch, processed_count,
                              processed, pWrites, pOutPath, pPc, pSink, pRet, pSeen,
                              pProgress>>
          ELSE IF Len(batch) >= pBatch \/ pI = Len(frame_files) - 1
          THEN /\ pSeen' = IF processed_count = 0 THEN HistoryMet(scanner_darkly[1], batch)
                           ELSE pSeen
               /\ scanner_darkly' = <<r.state>>
               /\ processed' = [x \in DOMAIN processed \cup written |->
                                  IF x \in written THEN r.outs[x - processed_count + 1]
                                  ELSE processed[x]]
               /\ pWrites' = pWrites \o idx
               /\ pOutPath' = "processed_dir"
               /\ processed_count' = processed_count + Len(batch)
               /\ pProgress' = Append(pProgress, <<ReportedDone(processed_count, Len(batch)),
                                                   pVideo.reported>>)
               /\ frame_batch' = <<>>
               /\ pI' = pI + 1
               /\ UNCHANGED <<frame_files, pPc, pSink, pRet, pFault>>
          ELSE /\ frame_batch' = batch
               /\ pI' = pI + 1
               /\ UNCHANGED <<scanner_darkly, frame_files, processed_count, processed,
                              pWrites, pOutPath, pPc, pSink, pRet, pFault, pSeen, pProgress>>
    /\ UNCHANGED <<pBatch, pFfmpeg, cv2Bound, pModel, pCall, pVideo, pEffect, pTemp>>
    /\ UNCHANGED nonPipeVars

\* assemble_from_disk on processed_dir, then both directories are cleaned up
DiskAssemble ==
    /\ pPc = "disk_loop"
    /\ pI = Len(frame_files)
    /\ LET frames == IF pFfmpeg THEN PatternOrder(processed, 0) ELSE InIndexOrder(processed, 0)
       IN \E ok \in BOOLEAN :
            /\ ok => frames # <<>>
            /\ ReturnVideo(ok, frames)
            /\ pFault' = (pFault \/ (~ok /\ frames # <<>>))
    /\ pTemp' = pTemp \ {"frames_dir", "processed_dir"}
    /\ UNCHANGED <<pBatch, pFfmpeg, cv2Bound, pModel, scanner_darkly, pCall, pVideo,
                   pEffect, pSeen, pProgress>>
    /\ UNCHANGED nonPipeVars

\* ---- the choice of strategy on its own ------------------------------------
FrameWidths == {1920, 32768, 32800}

FrameHeights == {1088, 16384}

FrameCounts == {0, 999, 1000, 1001, 1002}

MemoryBudgets == {3, 4}

\* process_video from get_video_info to the choice of the path
ChooseStrategy ==
    /\ sPath = "none"
    /\ sPath' = IF use_disk_frames([big |-> ExceedsBudget(sVideo.width, sVideo.height,
                                               sConfig.batch_size, sConfig.max_memory_usage_gb),
                                    reported |-> sVideo.total_frames])
                THEN "disk" ELSE "memory"
    /\ UNCHANGED <<sVideo, sConfig>>
    /\ UNCHANGED nonStrategyVars

RegistryIdle ==
    /\ gStored = {}
    /\ manifest = <<>>
    /\ effects_cache = {}
    /\ gLoad = "none"
    /\ gReturned = {}
    /\ gCalls = 0
    /\ gResult = "none"

DarklyIdle ==
    /\ dVideo = [n |-> 0, reported |-> 0]
    /\ dPc = "returned"
    /\ dRead = 0
    /\ dFrames = <<>>
    /\ dCount = 0
    /\ dWritten = <<>>
    /\ dRet = FALSE

ResizeIdle ==
    /\ zSource = <<0, 0>>
    /\ zFactor = 10
    /\ zFfmpeg = FALSE
    /\ zPc = "encoded"
    /\ zFrame = <<0, 0>>
    /\ zEncoded = <<0, 0>>

StrategyIdle ==
    /\ sVideo = [width |-> 0, height |-> 0, total_frames |-> 0]
    /\ sConfig = [batch_size |-> 1, max_memory_usage_gb |-> 4]
    /\ sPath = "none"

PipelineIdle ==
    /\ pBatch = 1
    /\ pFfmpeg = FALSE
    /\ cv2Bound = FALSE
    /\ pModel = FALSE
    /\ scanner_darkly = <<>>
    /\ pCall = 0
    /\ pPc = "idle"
    /\ pVideo = NoVideo
    /\ pEffect = "scanner_darkly"
    /\ pTemp = {}
    /\ frame_files = <<>>
    /\ pI = 0
    /\ frame_batch = <<>>
    /\ processed_count = 0
    /\ processed = <<>>
    /\ pWrites = <<>>
    /\ pOutPath = "caller"
    /\ pSink = <<>>
    /\ pRet = FALSE
    /\ pFault = FALSE
    /\ pSeen = <<>>
    /\ pProgress = <<>>

InitPipeline ==
    /\ pBatch \in 1..MaxBatch
    /\ pFfmpeg \in BOOLEAN
    /\ cv2Bound \in BOOLEAN
    /\ pModel \in BOOLEAN
    /\ scanner_darkly = <<>>
    /\ pCall = 0
    /\ pPc = "idle"
    /\ pVideo = NoVideo
    /\ pEffect = "scanner_darkly"
    /\ pTemp = {}
    /\ frame_files = <<>>
    /\ pI = 0
    /\ frame_batch = <<>>
    /\ processed_count = 0
    /\ processed = <<>>
    /\ pWrites = <<>>
    /\ pOutPath = "caller"
    /\ pSink = <<>>
    /\ pRet = FALSE
    /\ pFault = FALSE
    /\ pSeen = <<>>
    /\ pProgress = <<>>
    /\ ConsumerIdle
    /\ EngineIdle
    /\ StrategyIdle
    /\ ResizeIdle
    /\ DarklyIdle
    /\ RegistryIdle

NextPipeline ==
    \/ StartVideo
    \/ GetEffect
    \/ MemBatch
    \/ MemAssemble
    \/ FfmpegEncode
    \/ DiskSetup
    \/ DiskFrame
    \/ DiskAssemble

SpecPipeline == InitPipeline /\ [][NextPipeline]_vars

-----------------------------------------------------------------------------
(* The choice of strategy on its own *)

InitStrategy ==
    /\ sVideo \in [width : FrameWidths, height : FrameHeights, total_frames : FrameCounts]
    /\ sConfig \in [batch_size : 1..MaxBatch, max_memory_usage_gb : MemoryBudgets]
    /\ sPath = "none"
    /\ ConsumerIdle
    /\ EngineIdle
    /\ PipelineIdle
    /\ ResizeIdle
    /\ DarklyIdle
    /\ RegistryIdle

NextStrategy == ChooseStrategy

SpecStrategy == InitStrategy /\ [][NextStrategy]_vars

-----------------------------------------------------------------------------
(* An effect engine on its own *)

InitEngine ==
    /\ eKind \in {"opencv_dnn", "neural"}
    /\ eModel \in BOOLEAN
    /\ eTs \in {0, 3}
    /\ eFrames \in Videos(MaxVideoLen)
    /\ eBatch \in 2..MaxBatch
    /\ eState = FreshEngine(eKind)
    /\ ePos = 0
    /\ eOut = <<>>
    /\ eHist = <<>>
    /\ ConsumerIdle
    /\ PipelineIdle
    /\ StrategyIdle
    /\ ResizeIdle
    /\ DarklyIdle
    /\ RegistryIdle

NextEngine == FeedBatch

SpecEngine == InitEngine /\ [][NextEngine]_vars

-----------------------------------------------------------------------------
(* The queue consumers on their own *)

Init == InitConsumer /\ EngineIdle /\ PipelineIdle /\ StrategyIdle /\ ResizeIdle /\ DarklyIdle /\ RegistryIdle

Next ==
    \/ \E w \in Workers : Receive(w)
    \/ \E w \in Workers : Validate(w)
    \/ \E w \in Workers : Download(w)
    \/ \E w \in Workers : ProgressCallback(w)
    \/ \E w \in Workers : ProcessVideo(w)
    \/ \E w \in Workers : Upload(w)
    \/ \E w \in Workers : DeleteSource(w)
    \/ \E w \in Workers : LoopDeleteSource(w)
    \/ \E w \in Workers : Ack(w)
    \/ Tick

Spec == Init /\ [][Next]_vars

-----------------------------------------------------------------------------
(* Properties of the effect engines *)

Fed == SubSeq(eFrames, 1, ePos)

\* the result of feeding the frames fed so far in batches of b to a new engine
Reference(b) == Chunked(eKind, FreshEngine(eKind), Fed, b, eModel, eTs)

\* C5: the engine's cross-frame state persists across batch boundaries, so
\* whatever the batch size the caller feeds the job's frames in, the output
\* frames and the engine state after every frame are those of feeding the same
\* frames one at a time.
C5_BatchSizeIndependent ==
    /\ eOut = Reference(1).outs
    /\ eHist = Reference(1).states

\* a job fed in batches of several frames, long enough for the history to have
\* dropped its oldest entry, where the first frame of a later batch has an edge
\* only because of the frames of the batch before it
C5_Witness ==
    /\ eKind = "opencv_dnn" /\ eTs > 0 /\ eBatch > 1
    /\ ePos = Len(eFrames) /\ ePos > max_previous_frames + 1
    /\ \A i \in 1..ePos : ~EdgeFails(eFrames[i])
    /\ \E i \in 2..ePos :
        /\ (i - 1) % eBatch = 0
        /\ eOut[i].edge
        /\ Edges(eFrames[i], eModel) = 0

-----------------------------------------------------------------------------
(* Properties of the queue consumers *)

FailureEvents ==
    {"rejected", "download_fail", "open_fail", "process_fail", "upload_fail", "delete_src_fail"}

Failed(L) == \E e \in FailureEvents : Contains(L, e)

Before(L, a, b) == IndexOf(L, a) # 0 /\ IndexOf(L, a) < IndexOf(L, b)

InJob(w) == wpc[w] \in {"validate", "download", "process", "upload", "delete_source"}

Finished(w) == wpc[w] = "poll" /\ wlog[w] # <<>>

\* C1: in every delivery worked by the effects/processor.py consumer the source
\* object is deleted only after the upload returned successfully, and the queue
\* message is deleted only after the source object was deleted; in storage, a
\* deleted message implies a deleted source and a deleted source an upload.
C1_CommitOrder ==
    consumer = "effects" =>
        /\ \A w \in Workers :
            /\ Contains(wlog[w], "delete_src_ok") =>
                   Before(wlog[w], "upload_ok", "delete_src_ok")
            /\ Contains(wlog[w], "delete_src_fail") =>
                   Before(wlog[w], "upload_ok", "delete_src_fail")
            /\ Contains(wlog[w], "delete_msg_ok") =>
                   Before(wlog[w], "delete_src_ok", "delete_msg_ok")
            /\ Contains(wlog[w], "delete_msg_fail") =>
                   Before(wlog[w], "delete_src_ok", "delete_msg_fail")
        /\ msg = "deleted" => ~srcPresent
        /\ ~srcPresent => destUploads > 0

C1_Witness ==
    /\ consumer = "effects"
    /\ msg = "deleted"
    /\ \E w \in Workers : Contains(wlog[w], "delete_msg_ok")

\* C2: a delivery whose destination upload failed deletes neither the source
\* object nor the queue message, and when it is the only delivery so far the
\* source is still in storage and the message is still in the queue once the
\* consumer has finished handling it.
C2_UploadFailureKeepsJob ==
    \A w \in Workers :
        (Finished(w) /\ Contains(wlog[w], "upload_fail")) =>
            /\ ~Contains(wlog[w], "delete_src_ok")
            /\ ~Contains(wlog[w], "delete_msg_ok")
            /\ ~Contains(wlog[w], "delete_msg_fail")
            /\ receiveCount = 1 => (srcPresent /\ msg # "deleted")

C2_Witness ==
    \E w \in Workers :
        Finished(w) /\ Contains(wlog[w], "upload_fail") /\ receiveCount = 1

\* C3: a delivery in which the download, the processing, the upload and every
\* later storage and queue call succeeded ends with the source object deleted
\* and the queue message deleted exactly once.
C3_SuccessCommits ==
    \A w \in Workers :
        ( /\ Finished(w)
          /\ Contains(wlog[w], "download_ok")
          /\ Contains(wlog[w], "process_ok")
          /\ Contains(wlog[w], "upload_ok")
          /\ ~Failed(wlog[w])
          /\ ~Contains(wlog[w], "delete_msg_fail") ) =>
            /\ Contains(wlog[w], "delete_src_ok")
            /\ Count(wlog[w], "delete_msg_ok") = 1

\* C4: the queue message of a delivery is deleted (or its deletion attempted)
\* only when process_message reported success and no step of the job failed.
C4_NoAckAfterFailure ==
    \A w \in Workers :
        (Contains(wlog[w], "delete_msg_ok") \/ Contains(wlog[w], "delete_msg_fail")) =>
            /\ wret[w]
            /\ ~Failed(wlog[w])

C4_Witness ==
    \E w \in Workers :
        /\ consumer \in {"effects", "legacy"}
        /\ Finished(w)
        /\ Failed(wlog[w])
        /\ Contains(wlog[w], "left_in_queue")
        /\ msg # "deleted"

\* C9: under the consumers that ask for a lease (effects/processor.py, main.py),
\* while a worker is processing a job the message is never visible in the queue
\* and no second worker is working the same message.
C9_LeaseHeldWhileProcessing ==
    consumer # "legacy" =>
        \A w \in Workers :
            wpc[w] = "process" =>
                /\ msg # "visible"
                /\ \A v \in Workers \ {w} : ~InJob(v)

-----------------------------------------------------------------------------
(* Properties of process_video *)

\* the call ran on a video that opens, with a supported effect, and nothing in
\* its environment (model loading, frame reads, encoder) failed
CleanCall == pVideo.opens /\ pEffect = "scanner_darkly" /\ ~pFault /\ pVideo.bad = 0

\* C6: the temporal history (previous edges) met by the first frame of every
\* process_video call on one ProcessingPipeline is empty: nothing of an earlier
\* call is carried into it.
C6_FreshStatePerJob == pSeen = <<>>

\* C7: when process_video has returned for a video from which N frames were read,
\* the encoder was handed exactly N processed frames, the i-th being the result
\* of the i-th frame of the video, on the memory path and on the disk path.
C7_AllFramesInOrder ==
    (pPc = "returned" /\ CleanCall) =>
        /\ Len(pSink) = pVideo.n
        /\ \A i \in 1..Len(pSink) : pSink[i].src = i

C10_NoTempLeftBehind == pPc = "returned" => pTemp = {}

-----------------------------------------------------------------------------
(* More properties of the queue consumers *)

\* C11: when a consumer has finished handling a message, on every exit path,
\* neither the downloaded input file nor the local output file exists.
C11_LocalFilesRemoved == \A w \in Workers : Finished(w) => wfiles[w] = {}

-----------------------------------------------------------------------------
(* Properties of the choice of strategy *)

\* the estimated batch footprint, width x height x 3 bytes x batch_size x 2, in KiB
FootprintKiB == ((sVideo.width * sVideo.height * 3) \div 1024) * sConfig.batch_size * 2

BudgetKiB == sConfig.max_memory_usage_gb * 1024 * 1024

\* C12: the memory path is selected exactly when the estimated batch footprint is
\* at most the memory budget and the frame count is at most the large-video
\* threshold of 1000 frames; the disk path otherwise.
C12_StrategyBoundaries ==
    sPath # "none" =>
        (sPath = "memory" <=> (FootprintKiB <= BudgetKiB /\ sVideo.total_frames <= 1000))

\* a footprint exactly equal to the budget and a frame count exactly at the
\* threshold, decided for the memory path
C12_Witness ==
    /\ sPath = "memory"
    /\ FootprintKiB = BudgetKiB
    /\ sVideo.total_frames = 1000

-----------------------------------------------------------------------------
(* More properties of process_video *)

\* what a newly built pipeline with the same configuration hands to the encoder
\* for the frames from..n of a video: process_batch on batches of batch_size
RECURSIVE FreshRun(_, _, _)
FreshRun(st, from, n) ==
    IF from > n THEN <<>>
    ELSE LET hi == Min(from + pBatch - 1, n)
             r == EffectBatch(st, [i \in 1..(hi - from + 1) |-> from + i - 1])
         IN r.outs \o FreshRun(r.state, hi + 1, n)

\* a processed frame without the k-means seed: which frame it is, and whether it
\* carries an edge
Stylized(frames) ==
    [i \in 1..Len(frames) |->
        [src |-> frames[i].src, px |-> frames[i].out.px, edge |-> frames[i].out.edge]]

\* C13: every successful run on a given video with given parameters produces the
\* same output: the output of a call on a pipeline that has run before equals
\* the output of a new pipeline for that video.
C13_SameOutputEveryRun ==
    (pPc = "returned" /\ CleanCall /\ pRet /\ pVideo.n <= MaxFrames) =>
        Stylized(pSink) = Stylized(FreshRun(NewEffect, 1, pVideo.n))

\* C14: a job message that is not JSON or lacks a required field is rejected:
\* no delivery of it performs a download, an upload or a source deletion, the
\* stored objects stay as they were, and the queue message is never deleted.
C14_MalformedRejected ==
    body # ValidBody =>
        /\ \A w \in Workers : \A i \in 1..Len(wlog[w]) :
              wlog[w][i] \in {"received", "rejected", "left_in_queue"}
        /\ srcPresent
        /\ destUploads = 0
        /\ msg # "deleted"

\* a JSON body without its output location has been rejected and handled to the end
C14_Witness ==
    /\ body.json /\ ~body.output_key /\ body.bucket /\ body.input_key
    /\ \E w \in Workers : Finished(w) /\ Contains(wlog[w], "rejected")

\* C15: a malformed job message is rejected without a retry: once a consumer has
\* rejected it, no worker receives and handles that message again.
C15_NoRetryOfMalformed ==
    [][(body # ValidBody /\ \E w \in Workers : Contains(wlog[w], "rejected"))
          => receiveCount' = receiveCount]_vars

\* ---- a frame on which the engine fails -----------------------------------
\* the frame as it was handed in: no colour quantization (no k-means seed),
\* no edge overlay
Original(kind, f) ==
    IF kind = "neural"
    THEN [edges |-> <<>>, colors |-> <<f, -1>>]
    ELSE [px |-> f, seed |-> -1, edge |-> FALSE]

\* C16: process_batch returns one output per input frame, and at the position
\* of a frame on which edge detection raised the output is the original,
\* unmodified frame
C16_FailedFrameUnmodified ==
    /\ Len(eOut) = ePos
    /\ \A i \in 1..ePos :
          EdgeFails(eFrames[i]) => eOut[i] = Original(eKind, eFrames[i])

\* ---- the edge model cannot be loaded -------------------------------------
\* C17: without the edge model the engine still returns one frame per input
\* frame, and every frame on which edge detection works comes back with the
\* effect applied, never as the frame that was handed in
C17_FallbackStillStylizes ==
    ~eModel =>
        /\ Len(eOut) = ePos
        /\ \A i \in 1..ePos :
              ~EdgeFails(eFrames[i]) => eOut[i] # Original(eKind, eFrames[i])

\* ---- a source video that does not open -----------------------------------
\* the step at which a worker finds that the source does not open
FindsUnopenable(w) == ~Contains(wlog[w], "open_fail") /\ Contains(wlog'[w], "open_fail")

\* what holds of a delivery once its source video could not be opened
AbortedOnOpen(w) ==
    /\ wprog[w] = 0
    /\ ~Contains(wlog[w], "process_ok")
    /\ ~wret[w]
    /\ ~Contains(wlog[w], "upload_ok") /\ ~Contains(wlog[w], "upload_fail")
    /\ ~Contains(wlog[w], "delete_src_ok") /\ ~Contains(wlog[w], "delete_src_fail")
    /\ ~Contains(wlog[w], "delete_msg_ok") /\ ~Contains(wlog[w], "delete_msg_fail")
    /\ receiveCount = 1 => (srcPresent /\ destUploads = 0 /\ msg # "deleted")

\* C18: a delivery whose source video could not be opened processed no frame,
\* process_video wrote no output file and reported failure, and the delivery
\* attempted no upload, no deletion of the source object and no deletion of
\* the queue message.
C18_OpenFailureAborts ==
    /\ [](\A w \in Workers : Contains(wlog[w], "open_fail") => AbortedOnOpen(w))
    /\ [][\A w \in Workers : FindsUnopenable(w) => wfiles'[w] \subseteq wfiles[w]]_vars

C18_Witness ==
    \E w \in Workers :
        /\ consumer = "main"
        /\ Finished(w)
        /\ wlog[w] = <<"received", "valid", "download_ok", "open_fail", "left_in_queue">>

\* ---- a frame that cannot be read -----------------------------------------
\* the frames of the video other than the unreadable one, in order
RECURSIVE ReadableFrom(_, _, _)
ReadableFrom(i, n, bad) ==
    IF i > n THEN <<>>
    ELSE (IF i = bad THEN <<>> ELSE <<i>>) \o ReadableFrom(i + 1, n, bad)

\* C19: when one frame of the video cannot be read and nothing else goes wrong,
\* process_video succeeds, the encoder is handed every other frame in order,
\* and the last progress report carries frames_done = frames_total, the total
\* being one less than the frame count of the video.
C19_SkipsUnreadableFrame ==
    (pPc = "returned" /\ pVideo.opens /\ pEffect = "scanner_darkly" /\ ~pFault
        /\ pVideo.bad # 0 /\ pVideo.n > 1) =>
        /\ pRet
        /\ [i \in 1..Len(pSink) |-> pSink[i].src] = ReadableFrom(1, pVideo.n, pVideo.bad)
        /\ pProgress # <<>>
        /\ pProgress[Len(pProgress)][1] = pProgress[Len(pProgress)][2]
        /\ pProgress[Len(pProgress)][2] = pVideo.reported - 1

\* ---- progress reports ----------------------------------------------------
\* the number of batches process_batch has been called on so far
BatchesDone == (processed_count + pBatch - 1) \div pBatch

LastDone == IF pProgress = <<>> THEN 0 ELSE pProgress[Len(pProgress)][1]

\* C20: progress_callback is called once per processed batch with the
\* cumulative number of processed frames and the video's frame total; the
\* count strictly increases from one call to the next, and when process_video
\* has succeeded the last count is the number of frames handed to the encoder.
C20_ProgressPerBatch ==
    /\ \A k \in 1..Len(pProgress) :
          /\ pProgress[k][2] = pVideo.reported
          /\ pProgress[k][1] > (IF k = 1 THEN 0 ELSE pProgress[k - 1][1])
    /\ pPc \in {"mem_loop", "disk_loop", "ffmpeg_encode"} =>
          /\ Len(pProgress) = BatchesDone
          /\ LastDone = processed_count
    /\ (pPc = "returned" /\ pRet) => (pProgress # <<>> /\ LastDone = Len(pSink))

C20_Witness ==
    /\ pPc = "returned"
    /\ pRet
    /\ Len(pProgress) >= 2
    /\ pProgress[Len(pProgress)] = <<Len(pSink), pVideo.reported>>

-----------------------------------------------------------------------------
(* Failures late in a job *)

\* C21: a main.py delivery in which every frame was processed and the assembly
\* of the output then failed ends as a failed job with nothing left behind:
\* process_message reports failure, no local file of the job remains, no
\* upload was attempted and the queue message was not deleted.
C21_EncodeFailureFailsJob ==
    \A w \in Workers :
        (consumer = "main" /\ Finished(w) /\ Contains(wlog[w], "process_fail")) =>
            /\ ~wret[w]
            /\ wfiles[w] = {}
            /\ ~Contains(wlog[w], "upload_ok") /\ ~Contains(wlog[w], "upload_fail")
            /\ ~Contains(wlog[w], "delete_msg_ok") /\ ~Contains(wlog[w], "delete_msg_fail")

-----------------------------------------------------------------------------
(* Worker crashes.  A crashed worker loses its place in the job; the process  *)
(* is started again and polls.  Nothing of process_message runs at the crash, *)
(* so the local files stay and the message stays in flight until the lease    *)
(* runs out.                                                                  *)

EnvFailures == {"open_fail", "process_fail", "upload_fail", "delete_src_fail", "delete_msg_fail"}

\* the storage and queue calls of a step of worker w went through (a download
\* of an object that is no longer there cannot)
OpsSucceed(w) ==
    wlog'[w] # wlog[w] =>
        LET e == wlog'[w][Len(wlog'[w])] IN
        /\ e \notin EnvFailures
        /\ e = "download_fail" => ~srcPresent

\* one step of worker w's service loop
Step(w) ==
    /\ \/ Receive(w) \/ Validate(w) \/ Download(w) \/ ProgressCallback(w)
       \/ ProcessVideo(w) \/ Upload(w) \/ DeleteSource(w) \/ LoopDeleteSource(w) \/ Ack(w)
    /\ OpsSucceed(w)

\* the worker process dies while it holds a delivery (a crash is considered
\* only while the queue will still redeliver within the bound on receives)
Crash(w) ==
    /\ UNCHANGED nonConsumerVars
    /\ wpc[w] # "poll"
    /\ receiveCount < MaxReceives
    /\ wpc' = [wpc EXCEPT ![w] = "poll"]
    /\ Log(w, "crashed")
    /\ UNCHANGED <<consumer, body, msg, lease, receiveCount, srcPresent, destUploads,
                   handle, wret, wfiles, wprog>>

InitCrash ==
    /\ InitConsumer
    /\ body = ValidBody
    /\ EngineIdle /\ PipelineIdle /\ StrategyIdle /\ ResizeIdle /\ DarklyIdle /\ RegistryIdle

NextCrash ==
    \/ \E w \in Workers : Step(w)
    \/ \E w \in Workers : Crash(w)
    \/ Tick

\* workers that are alive keep taking steps and time keeps passing
SpecCrash ==
    /\ InitCrash
    /\ [][NextCrash]_vars
    /\ \A w \in Workers : WF_vars(Step(w))
    /\ WF_vars(Tick)

\* C22: with workers crashing, the lease running out and the message being
\* redelivered, and every storage and queue call succeeding, a valid job's
\* message is eventually deleted from the queue.
C22_CrashedJobCompletes == <>(msg = "deleted")

\* the same, for as long as the source object is still in the bucket
C22_CompletesWhileSourceExists == <>(msg = "deleted" \/ ~srcPresent)

-----------------------------------------------------------------------------
(* The frame files of the disk path *)

\* C23: on the disk path the sorted listing that the loop of
\* _process_video_disk walks holds the extracted frames in extraction order:
\* its i-th entry is the frame extract_to_disk wrote i-th (number i - 1),
\* however many frames were extracted and whatever count the container reported.
C23_ListingInExtractionOrder ==
    pPc = "disk_loop" =>
        /\ Len(frame_files) = pVideo.n
        /\ \A i \in 1..Len(frame_files) : frame_files[i] = i - 1

-----------------------------------------------------------------------------
(* The size of a frame, from the source to the encoded output.  The resize    *)
(* factor is in tenths.                                                       *)

SourceWidths == {4, 9, 16, 17}

SourceHeights == {4, 9, 10}

ResizeFactors == {3, 5, 10, 15}

\* a size times the factor, rounded to the nearest integer
Rounded(x, r) == (x * r + 5) \div 10

\* int(h * self.resize_factor): the fraction is cut off
Resized(x, r) == (x * r) \div 10

\* the pad filter of the ffmpeg command: ceil(iw/2)*2
PadToEven(x) == ((x + 1) \div 2) * 2


\* the size of the encoded video: ffmpeg pads to even values, the OpenCV
\* writer is opened with the size of the first frame
EncodedSize(ffmpeg, size) ==
    IF ffmpeg THEN <<PadToEven(size[1]), PadToEven(size[2])>> ELSE size

\* extract_frames_batch / extract_to_disk on one frame
ExtractFrame ==
    /\ zPc = "source"
    /\ zFrame' = IF zFactor # 10
                 THEN <<Resized(zSource[1], zFactor), Resized(zSource[2], zFactor)>>
                 ELSE zSource
    /\ zPc' = "extracted"
    /\ UNCHANGED <<zSource, zFactor, zFfmpeg, zEncoded>>
    /\ UNCHANGED nonResizeVars

\* the effect keeps the size; the assembler encodes
EncodeFrames ==
    /\ zPc = "extracted"
    /\ zEncoded' = EncodedSize(zFfmpeg, zFrame)
    /\ zPc' = "encoded"
    /\ UNCHANGED <<zSource, zFactor, zFfmpeg, zFrame>>
    /\ UNCHANGED nonResizeVars

InitResize ==
    /\ zSource \in SourceWidths \X SourceHeights
    /\ zFactor \in ResizeFactors
    /\ zFfmpeg \in BOOLEAN
    /\ zPc = "source"
    /\ zFrame = <<0, 0>>
    /\ zEncoded = <<0, 0>>
    /\ ConsumerIdle /\ EngineIdle /\ PipelineIdle /\ StrategyIdle /\ DarklyIdle /\ RegistryIdle

NextResize == ExtractFrame \/ EncodeFrames

SpecResize == InitResize /\ [][NextResize]_vars

\* C24: the frame handed to the effect measures round(W*r) x round(H*r), and
\* the encoded output measures those two values each padded up to the next
\* even value, under ffmpeg and under the OpenCV writer.
C24_OutputDimensions ==
    /\ zPc \in {"extracted", "encoded"} =>
          zFrame = <<Rounded(zSource[1], zFactor), Rounded(zSource[2], zFactor)>>
    /\ (zPc = "encoded" /\ zSource # <<0, 0>>) =>
          zEncoded = <<PadToEven(Rounded(zSource[1], zFactor)),
                       PadToEven(Rounded(zSource[2], zFactor))>>

-----------------------------------------------------------------------------
(* The first frame of a job *)

\* the first frame went through the engine's edge detection and quantization
FirstFrameProcessed ==
    /\ ePos >= 1
    /\ ~EdgeFails(eFrames[1])
    /\ eKind = "neural" => eModel

\* C25: the first frame of a job meets an empty state and is not blended with
\* anything: its output carries the frame's own edge map and its own quantized
\* colours, and the state after it holds exactly that edge map (and, in the
\* neural engine, those colours).
C25_FirstFrameUnblended ==
    FirstFrameProcessed =>
        LET f == eFrames[1] IN
        IF eKind = "neural"
        THEN /\ eOut[1] = [edges |-> <<RawEdge(f) * 10, 0>>, colors |-> <<f * 100, 0>>]
             /\ eHist[1].prev_edges = <<RawEdge(f) * 10, 0>>
             /\ eHist[1].prev_colors = f * 100
        ELSE /\ eOut[1] = quantize(f, 0, <<Edges(f, eModel), 1>>)
             /\ eHist[1].previous_edges = <<Edges(f, eModel)>>

C25_Witness ==
    /\ FirstFrameProcessed
    /\ eKind = "opencv_dnn" /\ eTs > 0
    /\ eFrames[1] = 1
    /\ eOut[1].edge
    /\ ePos >= 2

-----------------------------------------------------------------------------
(* More properties of the disk path *)

\* the loop over the frame files is over and assemble_from_disk is called next
AboutToAssemble == pPc = "disk_loop" /\ pI = Len(frame_files)

RECURSIVE LoadedFiles(_)
LoadedFiles(i) ==
    IF i = 0 THEN <<>>
    ELSE LoadedFiles(i - 1)
            \o (IF frame_files[i] + 1 = pVideo.bad THEN <<>> ELSE <<frame_files[i] + 1>>)

-----------------------------------------------------------------------------
(* process_scanner_darkly of effects/processor.py: frames are read one by one *)
(* and processed and written in batches.  A frame is its position in the      *)
(* video.                                                                     *)

MaxRead == 32

ScannerBatchSize == 30


\* a batch is processed when it is full or the reported end of the video is reached
Flushes(pending, count, total_frames) ==
    pending >= ScannerBatchSize \/ count + pending >= total_frames

\* one iteration of the read loop in which cap.read() delivers a frame
ReadFrame ==
    /\ dPc = "loop"
    /\ dRead < dVideo.n
    /\ dRead' = dRead + 1
    /\ LET frames == Append(dFrames, dRead + 1) IN
       IF Flushes(Len(frames), dCount, dVideo.reported)
       THEN /\ dWritten' = dWritten \o frames
            /\ dCount' = dCount + Len(frames)
            /\ dFrames' = <<>>
            \* the progress line divides by total_frames
            /\ IF dVideo.reported = 0
               THEN dPc' = "returned" /\ dRet' = FALSE
               ELSE UNCHANGED <<dPc, dRet>>
       ELSE /\ dFrames' = frames
            /\ UNCHANGED <<dWritten, dCount, dPc, dRet>>
    /\ UNCHANGED dVideo
    /\ UNCHANGED nonDarklyVars

\* cap.read() reports no frame: the loop is left, the writer is released and
\* the file is converted by ffmpeg
EndOfVideo ==
    /\ dPc = "loop"
    /\ dRead = dVideo.n
    /\ dPc' = "returned"
    /\ \E converted \in BOOLEAN : dRet' = converted
    /\ UNCHANGED <<dVideo, dRead, dFrames, dCount, dWritten>>
    /\ UNCHANGED nonDarklyVars

InitDarkly ==
    /\ dVideo \in [n : 0..MaxRead, reported : 0..(MaxRead + 1)]
    /\ dPc = "loop"
    /\ dRead = 0
    /\ dFrames = <<>>
    /\ dCount = 0
    /\ dWritten = <<>>
    /\ dRet = FALSE
    /\ ConsumerIdle /\ EngineIdle /\ PipelineIdle /\ StrategyIdle /\ ResizeIdle /\ RegistryIdle

NextDarkly == ReadFrame \/ EndOfVideo

SpecDarkly == InitDarkly /\ [][NextDarkly]_vars

\* C28: when process_scanner_darkly has read the video to its end, every frame
\* it read has been processed and written exactly once and in order, whatever
\* frame count the container reported.
C28_EveryReadFrameWritten ==
    (dPc = "returned" /\ dRead = dVideo.n /\ dVideo.n > 0) =>
        dWritten = [i \in 1..dVideo.n |-> i]

-----------------------------------------------------------------------------
(* The service loops from the start of the process.  effects/processor.py and *)
(* processor.py enter `while True`; main_cli of main.py calls main_loop, a    *)
(* name that main.py neither defines nor imports.                             *)

\* the call that starts the service resolves
ServiceLoopDefined(kind) == kind # "main"

\* service mode is started: the loop is entered, or the call raises NameError
\* and the process ends
StartService(w) ==
    /\ UNCHANGED nonConsumerVars
    /\ wpc[w] = "start"
    /\ wpc' = [wpc EXCEPT ![w] = IF ServiceLoopDefined(consumer) THEN "poll" ELSE "exited"]
    /\ UNCHANGED <<consumer, body, msg, lease, receiveCount, srcPresent, destUploads,
                   handle, wret, wlog, wfiles, wprog>>

\* one step of worker w, whatever its storage and queue calls report
LoopStep(w) ==
    \/ StartService(w) \/ Receive(w) \/ Validate(w) \/ Download(w)
    \/ ProcessVideo(w) \/ Upload(w) \/ DeleteSource(w) \/ Ack(w)

InitLoop ==
    /\ consumer \in ConsumerKinds
    /\ body \in BodyKinds
    /\ msg = "visible"
    /\ lease = 0
    /\ receiveCount = 0
    /\ srcPresent = TRUE
    /\ destUploads = 0
    /\ wpc = [w \in Workers |-> "start"]
    /\ handle = [w \in Workers |-> 0]
    /\ wret = [w \in Workers |-> FALSE]
    /\ wlog = [w \in Workers |-> <<>>]
    /\ wfiles = [w \in Workers |-> {}]
    /\ wprog = [w \in Workers |-> 0]
    /\ EngineIdle /\ PipelineIdle /\ StrategyIdle /\ ResizeIdle /\ DarklyIdle /\ RegistryIdle

NextLoop ==
    \/ \E w \in Workers : LoopStep(w)
    \/ Tick

SpecLoop ==
    /\ InitLoop
    /\ [][NextLoop]_vars
    /\ \A w \in Workers : WF_vars(LoopStep(w))

C29_DefinedLoopsReturnToPolling ==
    \A w \in Workers : []((consumer # "main" /\ wpc[w] # "poll") => <>(wpc[w] = "poll"))

-----------------------------------------------------------------------------
(* The effect registry.  A manifest is the set of its effect ids.             *)

MaxLookups == 3

BasicEffects == {"silent-movie", "grindhouse", "technicolor"}

StoredManifests == {BasicEffects, BasicEffects \cup {"custom"}, {"custom"}}

RequestedIds == {"silent-movie", "grindhouse", "technicolor", "tech", "custom"}

\* the effect files that can be downloaded
Availabilities == {{}, {"silent-movie"}, BasicEffects \cup {"custom"}}

\* load_manifest: what it returns, and what self.manifest is afterwards
load_manifest(outcome, stored, old) ==
    CASE outcome = "ok" -> [returned |-> stored, manifest |-> <<stored>>]
      [] outcome = "client_error" -> [returned |-> BasicEffects, manifest |-> old]
      [] OTHER -> [returned |-> {}, manifest |-> old]

\* the mapping of name variations in _normalize_effect_id, silent-movie by default
EffectMap(id) ==
    CASE id \in {"silent-movie", "silent"} -> "silent-movie"
      [] id \in {"grindhouse", "grind"} -> "grindhouse"
      [] id \in {"technicolor", "tech"} -> "technicolor"
      [] OTHER -> "silent-movie"

\* _normalize_effect_id with self.manifest set
normalize_effect_id(id, m) == IF id \in m[1] THEN id ELSE EffectMap(id)

\* download_effect with self.manifest set: a path or None
Downloads(id, m, avail) == id \in m[1] /\ id \in avail

\* get_effect_command: the result and the cache afterwards
RECURSIVE get_effect_command(_, _, _, _, _)
get_effect_command(id, m, cache, avail, has_get_command) ==
    IF m = <<>>
    THEN [result |-> "TypeError", cache |-> cache]
    ELSE LET n == normalize_effect_id(id, m) IN
         IF n \notin cache /\ ~Downloads(n, m, avail)
         THEN IF n # "silent-movie"
              THEN get_effect_command("silent-movie", m, cache, avail, has_get_command)
              ELSE [result |-> "None", cache |-> cache]
         ELSE [result |-> IF has_get_command THEN "command" ELSE "None",
               cache |-> cache \cup {n}]

\* VideoProcessor.__init__ pre-loads the manifest
LoadManifest ==
    /\ gLoad = "none"
    /\ \E outcome \in {"ok", "client_error", "error"} :
        LET r == load_manifest(outcome, gStored, manifest) IN
        /\ gLoad' = outcome
        /\ gReturned' = r.returned
        /\ manifest' = r.manifest
    /\ UNCHANGED <<gStored, effects_cache, gCalls, gResult>>
    /\ UNCHANGED nonRegistryVars

GetEffectCommand ==
    /\ gLoad # "none"
    /\ gCalls < MaxLookups
    /\ gCalls' = gCalls + 1
    /\ \E id \in RequestedIds, avail \in Availabilities, has_get_command \in BOOLEAN :
        LET r == get_effect_command(id, manifest, effects_cache, avail, has_get_command) IN
        /\ gResult' = r.result
        /\ effects_cache' = r.cache
    /\ UNCHANGED <<gStored, manifest, gLoad, gReturned>>
    /\ UNCHANGED nonRegistryVars

\* download_effect called on its own: it loads the manifest when there is none
DownloadEffect ==
    /\ gLoad # "none"
    /\ gCalls < MaxLookups
    /\ gCalls' = gCalls + 1
    /\ \E id \in RequestedIds, avail \in Availabilities, outcome \in {"ok", "client_error", "error"} :
        LET r == IF manifest = <<>>
                 THEN load_manifest(outcome, gStored, manifest)
                 ELSE [returned |-> gReturned, manifest |-> manifest]
        IN /\ manifest' = r.manifest
           /\ gReturned' = r.returned
           /\ gLoad' = IF manifest = <<>> THEN outcome ELSE gLoad
           /\ gResult' = IF r.manifest = <<>> THEN "TypeError"
                         ELSE IF Downloads(id, r.manifest, avail) THEN "path" ELSE "None"
    /\ UNCHANGED <<gStored, effects_cache>>
    /\ UNCHANGED nonRegistryVars

InitRegistry ==
    /\ gStored \in StoredManifests
    /\ manifest = <<>>
    /\ effects_cache = {}
    /\ gLoad = "none"
    /\ gReturned = {}
    /\ gCalls = 0
    /\ gResult = "none"
    /\ ConsumerIdle /\ EngineIdle /\ PipelineIdle /\ StrategyIdle /\ ResizeIdle /\ DarklyIdle

NextRegistry == LoadManifest \/ GetEffectCommand \/ DownloadEffect

SpecRegistry == InitRegistry /\ [][NextRegistry]_vars

\* C30: once load_manifest has failed to fetch the manifest from storage, the
\* registry holds the basic manifest, and every later download_effect and
\* get_effect_command resolves against it and returns a value (a command, a
\* path or None) instead of raising.
C30_BasicManifestAfterFailedLoad ==
    gLoad = "client_error" =>
        /\ manifest = <<BasicEffects>>
        /\ gResult # "TypeError"

====
